---- MODULE Spec2Model ----
(***************************************************************************)
(* The assistant run orchestrator of the Assistants Chat Extension:        *)
(* the chat request handler, Wrapper.createAndPollRun, the OpenAI path     *)
(* (OpenAIWrapper.createAndPollRun) and the Azure path (callAssistant),    *)
(* the per-user thread caches and the configuration-change listener.       *)
(*                                                                         *)
(* Strings are sequences of tokens; concatenation is \o.  Every await of   *)
(* a backend call is a suspension point: an action is the code that runs   *)
(* from the arrival of one response up to the issue of the next request.   *)
(***************************************************************************)
EXTENDS Integers, Sequences, FiniteSets, TLC

\* ------------------------------------------------------------- bounds
MaxAsks == 2        \* requests / calls of createAndPollRun in one behaviour
MaxPolls == 3       \* the backend reports a terminal status by this poll
MaxReconfig == 2    \* configuration-change events in one behaviour

Reqs == 1..MaxAsks

\* ------------------------------------------------------------- inputs
StoredUserId == "user_1"
UserIds == {"user_1", "user_2"}
AssistantIdArgs == {"", "asst_1"}
Prompts == {<<>>, <<" ">>, <<"hi">>}
Statuses == {"queued", "in_progress", "completed", "failed", "cancelled", "expired"}
LastErrors == {"null", "rate limited"}
\* How a backend call ends: it answers, or the transport throws one of these.
Results == {"ok", "connection", "auth"}
TransportError(res) ==
    IF res = "auth"
    THEN <<"401 ", "Incorrect API key provided", ": sk_1.">>
    ELSE <<"Connection error.">>

TextPart(v) == [type |-> "text", value |-> v]
ImagePart == [type |-> "image_file", value |-> <<>>]

\* What the backend appends to the thread when a run completes: the contents
\* of zero, one or two assistant messages, oldest first.
ReplyOptions ==
    { <<>>,
      << <<ImagePart>> >>,
      << <<TextPart(<<"Hello, ">>)>> >>,
      << <<TextPart(<<"Hello, ">>), ImagePart, TextPart(<<"world">>)>> >>,
      << <<TextPart(<<"Hello, ">>)>>, <<TextPart(<<"world">>)>> >> }

\* ------------------------------------------------------------- strings
Whitespace == {" ", "\n"}

RECURSIVE TrimLeft(_)
TrimLeft(s) == IF s # <<>> /\ Head(s) \in Whitespace THEN TrimLeft(Tail(s)) ELSE s

RECURSIVE TrimRight(_)
TrimRight(s) ==
    IF s # <<>> /\ s[Len(s)] \in Whitespace
    THEN TrimRight(SubSeq(s, 1, Len(s) - 1))
    ELSE s

Trim(s) == TrimRight(TrimLeft(s))

RECURSIVE Join(_, _)
Join(ss, sep) ==
    IF ss = <<>> THEN <<>>
    ELSE IF Len(ss) = 1 THEN ss[1]
    ELSE ss[1] \o sep \o Join(Tail(ss), sep)

RECURSIVE Flatten(_)
Flatten(ss) == IF ss = <<>> THEN <<>> ELSE Head(ss) \o Flatten(Tail(ss))

Reverse(s) == [k \in 1..Len(s) |-> s[Len(s) + 1 - k]]

Includes(s, tok) == \E k \in 1..Len(s) : s[k] = tok

CountOp(calls, op) == Cardinality({k \in 1..Len(calls) : calls[k] = op})

newlineSpacing == "\n\n\n"

\* ------------------------------------------------------------- outcomes
NoOut == [kind |-> "none", content |-> <<>>]
Answer(c) == [kind |-> "answer", content |-> c]
Error(m) == [kind |-> "error", content |-> m]
Rejected(m) == [kind |-> "rejected", content |-> m]

IsTerminal(st) == st \notin {"queued", "in_progress"}

\* ------------------------------------------------------------- state
VARIABLES
    config,              \* the settings of 'assistantsChatExtension'
    participant,         \* the registered chat participant: its handler's closure
    openaiThreadMap,     \* threadMap of the participant's OpenAIWrapper
    azureThreadMap,      \* threadMap of azure.mjs (one per process)
    threads,             \* the backend's threads: message log, and what changed since
    ask,                 \* the requests and calls, by slot
    isFirstInteraction,  \* workspaceState 'assistantsChatExtension.isFirstInteraction'
    reconfigs,           \* configuration-change events so far
    globalState,         \* context.globalState: 'assistantsChatExtension.userId'
    change,              \* the /change request in progress, if any
    savedAssistantId,    \* workspaceState 'savedAssistantId' ("" for none)
    extension            \* extension.ts: activation, its listener's calls, the
                         \* chat participants created

vars == <<config, participant, openaiThreadMap, azureThreadMap, threads, ask,
          isFirstInteraction, reconfigs, globalState, change, savedAssistantId,
          extension>>

\* ------------------------------------------------------------- wrapper
createWrapperByKey(cfg) ==
    LET isAzure == cfg.azureOpenAIApiKey # ""
        apiKey == IF isAzure THEN cfg.azureOpenAIApiKey ELSE cfg.apiKey
    IN  [isAzure |-> isAzure,
         azureApiKey |-> IF isAzure THEN apiKey ELSE "",
         azureEndpoint |-> IF isAzure THEN cfg.azureOpenAIEndpoint ELSE "",
         openaiWrapper |-> ~isAzure,
         apiKey |-> IF isAzure THEN "" ELSE apiKey]

createWrapper(cfg) ==
    LET isAzure == cfg.apiProvider = "azure"
                   \/ (cfg.apiProvider = "auto" /\ cfg.azureOpenAIApiKey # "")
        apiKey == IF isAzure THEN cfg.azureOpenAIApiKey ELSE cfg.apiKey
    IN  [isAzure |-> isAzure,
         azureApiKey |-> IF isAzure THEN apiKey ELSE "",
         azureEndpoint |-> IF isAzure THEN cfg.azureOpenAIEndpoint ELSE "",
         openaiWrapper |-> ~isAzure,
         apiKey |-> IF isAzure THEN "" ELSE apiKey]

DispatchFallsBack(w) ==
    IF w.isAzure /\ w.azureEndpoint # "" /\ w.azureApiKey # "" THEN "azure"
    ELSE "openai"

\* The branch taken by createAndPollRun, retrieveAssistant and getAssistants.
Dispatch(w) ==
    IF w.isAzure /\ w.azureEndpoint # "" /\ w.azureApiKey # "" THEN "azure"
    ELSE IF w.openaiWrapper THEN "openai"
    ELSE "none"

NoWrapper == createWrapper([apiProvider |-> "openai", apiKey |-> "",
                            azureOpenAIApiKey |-> "", azureOpenAIEndpoint |-> ""])

NotInitialized == <<"Neither Azure nor OpenAI client is properly initialized">>

\* Wrapper.createAndPollRun's catch: the message of the error, rethrown.
WrapperCatch(msg) == msg

\* callAssistant's catch.
AzureCatch(msg) == <<"Error calling assistant.", " Error message: ">> \o msg

\* The error an exchange ends with when `msg` is thrown inside the path's try.
Thrown(a, msg) ==
    IF a.path = "azure" THEN Error(WrapperCatch(AzureCatch(msg)))
    ELSE Error(WrapperCatch(msg))

\* ------------------------------------------------------------- handler output
IncorrectApiKey ==
    <<"The provided API key is incorrect. Please enter a valid API key in the extension settings.">>
ProcessingRequestError ==
    <<"An error occurred while processing your request. Please try again.">>
UnexpectedError == <<"An unexpected error occurred. Please try again.">>

\* The class of what the handler's catch receives: the wrapper rethrows
\* everything as `new Error(errorMessage)`, and the Azure listing throws the
\* SDK's own Error.
Caught(out) == [class |-> "Error", message |-> out.content, cause |-> <<>>]

handleError(err) ==
    (IF err.class = "LanguageModelError"
     THEN IF Includes(err.cause, "Incorrect API key provided")
          THEN IncorrectApiKey
          ELSE ProcessingRequestError
     ELSE IF err.class = "Error" THEN err.message
     ELSE UnexpectedError) \o <<newlineSpacing>>

Apology == <<"I'm sorry, but I couldn't generate a response. Please try again.">>
NonEmptyPlease == <<"Please enter a non-empty message.">>
NoAssistantSelected ==
    <<"No assistant selected. Please use the /change command to select an assistant.">>
ProcessingError ==
    <<"There was an error processing your request. Please try again or select a different assistant.">>
UsingAssistant == <<"Using assistant: **", "asst_1", "**. You can use the /change command to switch assistants.">>

HandlerRenderSilent(out) == <<>>

HandlerRender(out) ==
    IF out.kind = "answer"
    THEN IF out.content # <<>> THEN <<out.content \o <<newlineSpacing>>>>
         ELSE <<Apology \o <<newlineSpacing>>>>
    ELSE IF out.kind = "error" THEN <<handleError(Caught(out))>>
    ELSE <<out.content \o <<newlineSpacing>>>>

\* ------------------------------------------------------------- code context
\* What a request finds: the sendCodeContext setting and the active editor.
NoEditor == [active |-> FALSE, fileType |-> "", codeSnippet |-> <<>>]
Editor == [active |-> TRUE, fileType |-> "python", codeSnippet |-> <<"token = 'abc'">>]
NoEnv == [sendCodeContext |-> TRUE, editor |-> NoEditor]
Envs == [sendCodeContext : BOOLEAN, editor : {NoEditor, Editor}]

NoCodeContext == [defined |-> FALSE, fileType |-> "", codeSnippet |-> <<>>]

handleContextAlways(env, w) ==
    IF w.openaiWrapper /\ env.editor.active
    THEN [defined |-> TRUE, fileType |-> env.editor.fileType,
          codeSnippet |-> env.editor.codeSnippet]
    ELSE NoCodeContext

handleContextAwareOperations(env, w) ==
    IF env.sendCodeContext /\ w.openaiWrapper /\ env.editor.active
    THEN [defined |-> TRUE, fileType |-> env.editor.fileType,
          codeSnippet |-> env.editor.codeSnippet]
    ELSE NoCodeContext

requestWithContext(codeContext, question) ==
    IF codeContext.defined
    THEN <<"Code snippet in ", codeContext.fileType, ":\n">> \o codeContext.codeSnippet
             \o <<"\n\nQuestion: ">> \o question
    ELSE question

\* ------------------------------------------------------------- exchanges
Idle ==
    [pc |-> "idle", origin |-> "none", command |-> "", userId |-> "", assistantId |-> "",
     question |-> <<>>, first |-> FALSE, live |-> FALSE, w |-> NoWrapper,
     env |-> NoEnv, request |-> <<>>,
     path |-> "none", via |-> {}, stale |-> {}, cancel |-> 0,
     threadId |-> 0, created |-> FALSE, runId |-> 0, status |-> "none",
     lastError |-> "null", observed |-> <<>>, calls |-> <<>>, failed |-> "",
     out |-> NoOut, emitted |-> <<>>, pred |-> {}]

\* The exchanges that have ended.
Earlier == {j \in Reqs : ask[j].pc \in {"done", "returned"}}

\* A request goes out to the backend of the branch taken.
Issue(a, op, pc) ==
    [a EXCEPT !.calls = Append(@, op), !.via = @ \cup {a.path}, !.pc = pc]

Finish(a, out) ==
    [a EXCEPT !.pc = "done", !.out = out,
              !.emitted = IF a.origin = "handler" THEN @ \o HandlerRender(out) ELSE @]

FailRetries(a, res) == Issue(a, a.calls[Len(a.calls)], a.pc)

\* A backend call that fails: the exchange ends with the transport's error.
Fail(a, res) == Finish([a EXCEPT !.failed = a.pc], Thrown(a, TransportError(res)))

AcceptsAnyAssistantId(assistantId) == FALSE

RejectsAssistantId(assistantId) == assistantId = ""

CachedThreadNever(a) == 0

\* threadMap.get(userId).  An exchange starts through the registered
\* participant, so it reads the thread map of that participant's wrapper.
CachedThread(a) ==
    IF a.path = "azure" THEN azureThreadMap[a.userId]
    ELSE openaiThreadMap[a.userId]

\* The cache lookup, then the first request of the path.
ResolveThread(a) ==
    IF CachedThread(a) = 0
    THEN Issue(a, "createThread", "createThread")
    ELSE Issue([a EXCEPT !.threadId = CachedThread(a),
                         !.stale = threads[CachedThread(a)].since],
               "createMessage", "append")

\* Wrapper.createAndPollRun up to its first await.
EnterWrapper(a) ==
    IF RejectsAssistantId(a.assistantId)
    THEN Finish(a, Error(<<"Assistant ID is required">>))
    ELSE LET codeContext == IF a.origin = "handler"
                            THEN handleContextAwareOperations(a.env, a.w)
                            ELSE NoCodeContext
             b == [a EXCEPT !.path = Dispatch(a.w),
                            !.request = IF Dispatch(a.w) = "openai"
                                        THEN requestWithContext(codeContext, a.question)
                                        ELSE a.question]
         IN  IF b.path = "none"
             THEN Finish(b, Error(WrapperCatch(NotInitialized)))
             ELSE ResolveThread(b)

\* The handler from the assistant-id check to its next await.
Checks(a) ==
    IF a.assistantId = "" THEN Finish(a, Rejected(NoAssistantSelected))
    ELSE IF participant.model # "" /\ a.assistantId # ""
    THEN IF Trim(a.question) = <<>>
         THEN Finish(a, Rejected(NonEmptyPlease))
         ELSE EnterWrapper(a)
    ELSE Finish(a, Rejected(ProcessingError))

\* registerChatParticipant's userId: the stored one, or a new `user_<now>`.
GeneratedUserId == "user_2"
registerUserIdAnew(stored) == GeneratedUserId
registerUserId(stored) == IF stored = "" THEN GeneratedUserId ELSE stored

\* The handler's `userId || default_user_<now>`.
safeUserId(userId) == IF userId = "" THEN "default_user" ELSE userId

\* No /change request is in progress.
NoChange ==
    [pc |-> "idle", live |-> FALSE, w |-> NoWrapper, prompt |-> <<>>,
     assistants |-> <<>>, choice |-> "", sample |-> "", selected |-> "",
     calls |-> <<>>, emitted |-> <<>>, n |-> 0]

\* Slots are taken in order.
CanStart(i) ==
    /\ ask[i].pc = "idle"
    /\ \A j \in Reqs : j < i => ask[j].pc # "idle"

\* The handler past its command test, up to its first await.
HandleAsk(command, prompt, env) ==
    LET a == [Idle EXCEPT !.origin = "handler", !.command = command, !.env = env,
                          !.userId = safeUserId(participant.userId),
                          !.assistantId = participant.assistantId,
                          !.question = prompt, !.first = isFirstInteraction,
                          !.live = TRUE, !.w = participant.wrapper,
                          !.pred = Earlier]
        path == Dispatch(a.w)
    IN  IF ~a.first THEN Checks(a)
        ELSE IF path = "azure"
             THEN Issue([a EXCEPT !.path = path], "listAssistants", "retrieve")
        ELSE IF path = "openai"
             THEN Issue([a EXCEPT !.path = path], "retrieveAssistant", "retrieve")
        ELSE Finish(a, Error(NotInitialized))

\* The chat request handler is invoked with a prompt (no command), with no
\* editor open.
StartRequest(i, prompt) ==
    /\ CanStart(i)
    /\ participant.model # ""
    /\ ask' = [ask EXCEPT ![i] = HandleAsk("", prompt, NoEnv)]
    /\ UNCHANGED <<savedAssistantId, extension, globalState, change, config, participant, openaiThreadMap,
                   azureThreadMap, threads, isFirstInteraction, reconfigs>>

\* The chat request handler is invoked with a prompt, under a setting of
\* sendCodeContext and with or without an active editor.
StartRequestIn(i, prompt, env) ==
    /\ CanStart(i)
    /\ participant.model # ""
    /\ ask' = [ask EXCEPT ![i] = HandleAsk("", prompt, env)]
    /\ UNCHANGED <<savedAssistantId, extension, globalState, change, config, participant, openaiThreadMap,
                   azureThreadMap, threads, isFirstInteraction, reconfigs>>

\* wrapper.retrieveAssistant answers on the first interaction.
RetrieveResp(i, res) ==
    /\ ask[i].pc = "retrieve"
    /\ res \notin {"found", "missing"} => ask[i].path = "azure"
    /\ LET a == [ask[i] EXCEPT !.path = "none"]
       IN  IF res \notin {"found", "missing"}
           THEN /\ ask' = [ask EXCEPT ![i] =
                      Finish([a EXCEPT !.failed = "retrieve"], Error(TransportError(res)))]
                /\ UNCHANGED isFirstInteraction
           ELSE /\ ask' = [ask EXCEPT ![i] =
                      Checks(IF res = "found"
                             THEN [a EXCEPT !.emitted =
                                       Append(@, UsingAssistant \o <<newlineSpacing>>)]
                             ELSE a)]
                /\ isFirstInteraction' = FALSE
    /\ UNCHANGED <<savedAssistantId, extension, globalState, change, config, participant, openaiThreadMap, azureThreadMap, threads,
                   reconfigs>>

\* Wrapper.createAndPollRun is called directly.
CallDirect(i, assistantId, question, userId) ==
    /\ CanStart(i)
    /\ ask' = [ask EXCEPT ![i] =
            EnterWrapper([Idle EXCEPT !.origin = "direct", !.userId = userId,
                                      !.assistantId = assistantId,
                                      !.question = question,
                                      !.live = TRUE,
                                      !.w = participant.wrapper,
                                      !.pred = Earlier])]
    /\ UNCHANGED <<savedAssistantId, extension, globalState, change, config, participant, openaiThreadMap, azureThreadMap, threads,
                   isFirstInteraction, reconfigs>>

\* ------------------------------------------------------------- backend
UserMessage(question) ==
    [role |-> "user", run_id |-> 0, content |-> <<TextPart(question)>>]

AssistantMessages(runId, reply) ==
    [k \in 1..Len(reply) |-> [role |-> "assistant", run_id |-> runId, content |-> reply[k]]]

\* Statuses move forward only, and the backend ends a run by poll MaxPolls.
NextStatusOk(a, st) ==
    /\ a.status = "in_progress" => st # "queued"
    /\ IsTerminal(a.status) => st = a.status
    /\ CountOp(a.calls, "getRun") >= MaxPolls => IsTerminal(st)

\* messages.list / listMessages without an order: newest first.
ListMessages(log) == Reverse(log)

BelongsToAnyRun(msg, runId) == msg.role = "assistant"

BelongsTo(msg, runId) == msg.role = "assistant" /\ msg.run_id = runId

IsText(part) == part.type = "text"

TextValues(content) ==
    LET texts == SelectSeq(content, IsText)
    IN  [k \in 1..Len(texts) |-> texts[k].value]

\* OpenAIWrapper.createAndPollRun, the completed branch.
ExtractOpenAI(msgs, runId) ==
    LET hits == SelectSeq(msgs, LAMBDA m : BelongsTo(m, runId))
    IN  IF hits # <<>>
        THEN Answer(Join(TextValues(hits[1].content), <<>>))
        ELSE Error(<<"Unexpected structure of assistant message">>)

\* callAssistant, the completed branch.
ExtractAzure(msgs, runId) ==
    LET assistantMessages == SelectSeq(msgs, LAMBDA m : BelongsTo(m, runId))
        responseContent ==
            Flatten([k \in 1..Len(assistantMessages) |-> assistantMessages[k].content])
        textContent == Join(TextValues(responseContent), <<"\n">>)
    IN  IF Trim(textContent) # <<>>
        THEN Answer(textContent)
        ELSE Answer(<<"No response from the assistant.">>)

Reason(lastError) == IF lastError # "null" THEN lastError ELSE "Unknown reason"

\* The else branch of the status check: OpenAIWrapper throws the run's status
\* and reason; callAssistant reads the undeclared completedRun.
RunFailedOpenAI(st, lastError) == <<"Run status: ", st, ". ", Reason(lastError)>>
RunFailedAzure(st, lastError) == <<"completedRun is not defined">>

AfterLoopAlwaysLists(a) == Issue(a, "listMessages", "list")

\* The code after the loop: what a non-polled status leads to.
AfterLoop(a) ==
    IF a.status = "completed" THEN Issue(a, "listMessages", "list")
    ELSE Finish(a, Thrown(a, IF a.path = "azure"
                             THEN RunFailedAzure(a.status, a.lastError)
                             ELSE RunFailedOpenAI(a.status, a.lastError)))

\* do { sleep; retrieve } while (...) for OpenAI: the loop body always runs
\* once; while (...) { sleep; getRun } for Azure.
AfterStart(a) ==
    IF a.path = "openai" \/ ~IsTerminal(a.status)
    THEN [a EXCEPT !.pc = "sleep"]
    ELSE AfterLoop(a)

AfterPollTwice(a) ==
    IF ~IsTerminal(a.status) \/ CountOp(a.calls, "getRun") < 2
    THEN [a EXCEPT !.pc = "sleep"]
    ELSE AfterLoop(a)

AfterPollCapped(a) ==
    IF ~IsTerminal(a.status) /\ CountOp(a.calls, "getRun") < 2
    THEN [a EXCEPT !.pc = "sleep"]
    ELSE AfterLoop(a)

AfterPoll(a) ==
    IF ~IsTerminal(a.status) THEN [a EXCEPT !.pc = "sleep"] ELSE AfterLoop(a)

\* threads.create / createThread answers.
CreateThreadResp(i, res) ==
    /\ ask[i].pc = "createThread"
    /\ LET a == ask[i]
           tid == Len(threads) + 1
       IN  IF res = "ok"
           THEN /\ threads' = Append(threads, [log |-> <<>>, since |-> {}])
                /\ IF a.path = "azure"
                   THEN /\ azureThreadMap' = [azureThreadMap EXCEPT ![a.userId] = tid]
                        /\ UNCHANGED openaiThreadMap
                   ELSE /\ openaiThreadMap' =
                              IF a.live
                              THEN [openaiThreadMap EXCEPT ![a.userId] = tid]
                              ELSE openaiThreadMap
                        /\ UNCHANGED azureThreadMap
                /\ ask' = [ask EXCEPT ![i] =
                       Issue([a EXCEPT !.threadId = tid, !.created = TRUE],
                             "createMessage", "append")]
           ELSE /\ ask' = [ask EXCEPT ![i] = Fail(a, res)]
                /\ UNCHANGED <<threads, openaiThreadMap, azureThreadMap>>
    /\ UNCHANGED <<savedAssistantId, extension, globalState, change, config, participant, isFirstInteraction, reconfigs>>

AppendRespRollsBack(i, res) ==
    /\ ask[i].pc = "append"
    /\ LET a == ask[i]
       IN  IF res = "ok"
           THEN /\ threads' = [threads EXCEPT ![a.threadId].log =
                                   Append(@, UserMessage(a.request))]
                /\ ask' = [ask EXCEPT ![i] = Issue(a, "createRun", "startRun")]
                /\ UNCHANGED <<openaiThreadMap, azureThreadMap>>
           ELSE /\ ask' = [ask EXCEPT ![i] = Fail(a, res)]
                /\ openaiThreadMap' = [openaiThreadMap EXCEPT ![a.userId] = 0]
                /\ azureThreadMap' = [azureThreadMap EXCEPT ![a.userId] = 0]
                /\ UNCHANGED threads
    /\ UNCHANGED <<savedAssistantId, extension, globalState, change, config, participant, isFirstInteraction, reconfigs>>

\* messages.create / createMessage answers.
AppendResp(i, res) ==
    /\ ask[i].pc = "append"
    /\ LET a == ask[i]
       IN  IF res = "ok"
           THEN /\ threads' = [threads EXCEPT ![a.threadId].log =
                                   Append(@, UserMessage(a.request))]
                /\ ask' = [ask EXCEPT ![i] = Issue(a, "createRun", "startRun")]
           ELSE /\ ask' = [ask EXCEPT ![i] = Fail(a, res)]
                /\ UNCHANGED threads
    /\ UNCHANGED <<savedAssistantId, extension, globalState, change, config, participant, openaiThreadMap, azureThreadMap,
                   isFirstInteraction, reconfigs>>

\* runs.create / createRun answers.
StartRunResp(i, res, st, lastError) ==
    /\ ask[i].pc = "startRun"
    /\ LET a == ask[i]
       IN  ask' = [ask EXCEPT ![i] =
               IF res = "ok"
               THEN AfterStart([a EXCEPT !.runId = i, !.status = st,
                                         !.lastError = lastError,
                                         !.observed = <<st>>])
               ELSE Fail(a, res)]
    /\ UNCHANGED <<savedAssistantId, extension, globalState, change, config, participant, openaiThreadMap, azureThreadMap, threads,
                   isFirstInteraction, reconfigs>>

\* The delay between polls elapses and the poll request is sent.  The
\* record of an exchange keeps its first MaxPolls polls.
SleepDone(i) ==
    /\ ask[i].pc = "sleep"
    /\ ask' = [ask EXCEPT ![i] =
           IF CountOp(ask[i].calls, "getRun") < MaxPolls
           THEN Issue(ask[i], "getRun", "poll")
           ELSE [ask[i] EXCEPT !.pc = "poll"]]
    /\ UNCHANGED <<savedAssistantId, extension, globalState, change, config, participant, openaiThreadMap, azureThreadMap, threads,
                   isFirstInteraction, reconfigs>>

\* runs.retrieve / getRun answers.
PollResp(i, res, st, lastError) ==
    /\ ask[i].pc = "poll"
    /\ LET a == ask[i]
       IN  IF res = "ok"
           THEN /\ NextStatusOk(a, st)
                /\ ask' = [ask EXCEPT ![i] =
                       AfterPoll([a EXCEPT !.status = st, !.lastError = lastError,
                                           !.observed = Append(@, st)])]
           ELSE ask' = [ask EXCEPT ![i] = Fail(a, res)]
    /\ UNCHANGED <<savedAssistantId, extension, globalState, change, config, participant, openaiThreadMap, azureThreadMap, threads,
                   isFirstInteraction, reconfigs>>

\* messages.list / listMessages answers.  The assistant messages the backend
\* wrote for the completed run are in the thread by now.
ListResp(i, res, reply) ==
    /\ ask[i].pc = "list"
    /\ LET a == ask[i]
           log == threads[a.threadId].log \o AssistantMessages(a.runId, reply)
           msgs == ListMessages(log)
       IN  /\ threads' = [threads EXCEPT ![a.threadId].log = log]
           /\ ask' = [ask EXCEPT ![i] =
                  IF res # "ok" THEN Fail(a, res)
                  ELSE IF a.path = "azure" THEN Finish(a, ExtractAzure(msgs, a.runId))
                  ELSE Finish(a, ExtractOpenAI(msgs, a.runId))]
    /\ UNCHANGED <<savedAssistantId, extension, globalState, change, config, participant, openaiThreadMap, azureThreadMap,
                   isFirstInteraction, reconfigs>>

\* ------------------------------------------------------------- start
KeyValues == {"sk_1", "sk_2"}
AzureKeyValues == {"", "ak_1", "ak_2"}
EndpointValues == {"ep_1", "ep_2"}
Providers == {"auto", "openai", "azure"}

Config(provider, apiKey, azureKey, endpoint) ==
    [apiProvider |-> provider, apiKey |-> apiKey,
     azureOpenAIApiKey |-> azureKey, azureOpenAIEndpoint |-> endpoint]

\* After activation: OpenAI by default, Azure by its key, Azure without a key.
InitConfigs ==
    { Config("auto", "sk_1", "", "ep_1"),
      Config("auto", "sk_1", "ak_1", "ep_1"),
      Config("azure", "sk_1", "", "ep_1") }

NoThreads == [u \in UserIds |-> 0]

\* ------------------------------------------------------------- extension.ts
MaxEvents == 2

\* A call of activate (0) or of the configuration-change listener (1, 2, ..)
\* and the updateChatParticipant it is in: phase 1 is the listener's update
\* for a changed apiProvider, phase 2 its unconditional update.
NoTask ==
    [pc |-> "idle", phase |-> 0, cfg |-> Config("auto", "", "", ""),
     w |-> NoWrapper, assistantId |-> "", assistants |-> <<>>, listed |-> {},
     choice |-> "", sample |-> "", registrations |-> 0, failures |-> 0]

\* Module state of extension.ts before activate: `configuration` is the
\* variable of activate that the listener reads and assigns, `created` counts
\* the chat participants created and not disposed, `last` is the call that
\* registered the latest of them with what it had listed or created.
NoExtension ==
    [activation |-> "none", commands |-> FALSE, listening |-> FALSE,
     configuration |-> Config("auto", "", "", ""), created |-> 0,
     last |-> [event |-> 0, listed |-> {}, sample |-> ""],
     tasks |-> [e \in 0..MaxEvents |-> NoTask], events |-> 0]

\* No chat participant is registered.
NoParticipant == [wrapper |-> NoWrapper, model |-> "", assistantId |-> "", userId |-> ""]

\* updateChatParticipant when it gets to registerChatParticipant: the saved
\* assistant if there is one, else the one chosen.
Register(cfg) ==
    [wrapper |-> createWrapper(cfg), model |-> "gpt-3.5-turbo",
     assistantId |-> IF savedAssistantId # "" THEN savedAssistantId ELSE "asst_1",
     userId |-> registerUserId(globalState.userId)]

Init ==
    /\ config \in InitConfigs
    /\ globalState = [userId |-> StoredUserId]
    /\ participant = [wrapper |-> createWrapper(config),
                      model |-> "gpt-3.5-turbo", assistantId |-> "asst_1",
                      userId |-> registerUserId(globalState.userId)]
    /\ change = NoChange
    /\ savedAssistantId = participant.assistantId
    /\ extension = [NoExtension EXCEPT !.activation = "done", !.commands = TRUE,
                                       !.listening = TRUE, !.configuration = config,
                                       !.created = 1,
                                       !.last.listed = {participant.assistantId}]
    /\ openaiThreadMap = NoThreads
    /\ azureThreadMap = NoThreads
    /\ threads = <<>>
    /\ ask = [i \in Reqs |-> Idle]
    /\ isFirstInteraction = TRUE
    /\ reconfigs = 0

\* The result reaches the caller and the locals of the exchange are dropped;
\* what stays is what the thread caches and the later exchanges depend on.
Returned(a) ==
    [Idle EXCEPT !.pc = "returned", !.userId = a.userId, !.live = a.live,
                 !.assistantId = a.assistantId,
                 !.path = a.path, !.threadId = a.threadId,
                 !.created = a.created, !.pred = a.pred]

Return(i) ==
    /\ ask[i].pc = "done"
    /\ ask' = [ask EXCEPT ![i] = Returned(ask[i])]
    /\ UNCHANGED <<savedAssistantId, extension, globalState, change, config, participant, openaiThreadMap, azureThreadMap, threads,
                   isFirstInteraction, reconfigs>>

\* The last step of an exchange and the return to its caller are one turn of
\* the event loop: nothing else runs in between.
NoneSettling == \A j \in Reqs : ask[j].pc # "done"

\* The caller serializes its requests.
Quiet == \A j \in Reqs : ask[j].pc \in {"idle", "returned"}

FailureStatuses == {"failed", "cancelled", "expired"}

\* A run as the backend reports it: last_error comes with failed.
RunResponses ==
    {r \in [status : Statuses, lastError : LastErrors] :
        r.lastError # "null" => r.status = "failed"}

Begin(i) ==
    \/ \E prompt \in Prompts : StartRequest(i, prompt)
    \/ \E assistantId \in AssistantIdArgs, userId \in UserIds :
           CallDirect(i, assistantId, <<"hi">>, userId)

Step(i) ==
    \/ \E res \in {"found", "missing", "connection", "auth"} : RetrieveResp(i, res)
    \/ \E res \in Results : CreateThreadResp(i, res)
    \/ \E res \in Results : AppendResp(i, res)
    \/ \E res \in Results, r \in RunResponses :
           StartRunResp(i, res, r.status, r.lastError)
    \/ SleepDone(i)
    \/ \E res \in Results, r \in RunResponses :
           PollResp(i, res, r.status, r.lastError)
    \/ \E res \in Results, reply \in ReplyOptions : ListResp(i, res, reply)

\* ------------------------------------------------------------- configuration
SettingValues ==
    [apiProvider |-> Providers, apiKey |-> KeyValues,
     azureOpenAIApiKey |-> AzureKeyValues, azureOpenAIEndpoint |-> EndpointValues]

KeySettings == {"apiKey", "azureOpenAIApiKey", "azureOpenAIEndpoint"}

\* What a registration changes with respect to the participant before it.
Changed(old, new, setting) ==
    IF new.isAzure # old.isAzure THEN {"provider"}
    ELSE IF setting \in KeySettings \/ new # old THEN {"key"}
    ELSE {}

\* The onDidChangeConfiguration listener after one setting has changed: it
\* runs updateChatParticipant (twice when apiProvider changed), which builds a
\* Wrapper, and with it a new OpenAIWrapper, from the new settings and, unless
\* listing the assistants fails or no assistant is chosen, registers a chat
\* participant that uses it.  The thread map of the wrapper it replaces is
\* out of reach from then on.
ConfigChange(setting, value, registers) ==
    /\ reconfigs < MaxReconfig
    /\ value \in SettingValues[setting]
    /\ value # config[setting]
    /\ reconfigs' = reconfigs + 1
    /\ config' = [config EXCEPT ![setting] = value]
    /\ LET new == createWrapper(config')
           what == Changed(participant.wrapper, new, setting)
       IN  IF registers
           THEN /\ change' = [change EXCEPT !.live = FALSE]
                /\ participant' = Register(config')
                /\ savedAssistantId' = Register(config').assistantId
                /\ globalState' = [globalState EXCEPT !.userId = registerUserId(@)]
                /\ openaiThreadMap' = NoThreads
                /\ ask' = [j \in Reqs |-> [ask[j] EXCEPT !.live = FALSE]]
                /\ threads' = [t \in DOMAIN threads |->
                                  [threads[t] EXCEPT !.since = @ \cup what]]
           ELSE UNCHANGED <<participant, openaiThreadMap, threads, ask, globalState,
                            change, savedAssistantId>>
    /\ extension' = [extension EXCEPT
                         !.configuration = config',
                         !.created = IF registers THEN @ + 1 ELSE @,
                         !.last.listed = IF registers
                                         THEN {Register(config').assistantId} ELSE @]
    /\ UNCHANGED <<azureThreadMap, isFirstInteraction>>

\* ------------------------------------------------------------- /change
MaxChanges == 1

Assistant(id, name) == [id |-> id, name |-> name]
Helper == Assistant("asst_1", "Helper")
Coder == Assistant("asst_2", "Coder")
Unnamed == Assistant("asst_3", "null")
SampleAssistant == Assistant("asst_bb", "Beavis and Butthead")

\* What the backend may list.
Listings == {<<>>, <<Coder>>, <<Helper, Coder>>, <<Coder, Unnamed>>}

SampleCreated ==
    <<"Sample assistant \"Beavis and Butthead\" created successfully. You can now chat with it.">>
SampleFailed ==
    <<"An error occurred while creating the sample assistant. Please create one manually using the web interface or PSOpenAI.">>
NoAssistantsAvailable == <<"No assistants available. Please create an assistant to proceed.">>
AutomaticallySelected(assistant) ==
    <<"Automatically selected assistant: ",
      IF assistant.name # "null" THEN assistant.name ELSE assistant.id>>
PleaseSelect == <<"Please select an assistant.">>
NoAssistantSelectedProceed ==
    <<"No assistant selected. Please select an assistant to proceed.">>
NoAssistantSelectedTryAgain == <<"No assistant selected. Please try again.">>
SwitchedTo(assistants, assistantId) ==
    LET ks == {k \in 1..Len(assistants) : assistants[k].id = assistantId}
        found == assistants[CHOOSE k \in ks : \A m \in ks : k <= m]
    IN  IF ks # {} /\ found.name # "null"
        THEN <<"You have switched to the assistant: **", found.name, "**.">>
        ELSE <<"You have switched to the assistant with ID: **", assistantId, "**.">>

\* assistants.map(a => a.name).filter(name => name !== null)
AssistantNames(assistants) ==
    SelectSeq([k \in 1..Len(assistants) |-> assistants[k].name],
              LAMBDA name : name # "null")

\* assistants.find(a => a.name === name), its id.
FindByName(assistants, name) ==
    LET ks == {k \in 1..Len(assistants) : assistants[k].name = name}
    IN  IF ks = {} THEN ""
        ELSE assistants[CHOOSE k \in ks : \A m \in ks : k <= m].id

Say(c, text) == [c EXCEPT !.emitted = Append(@, text \o <<newlineSpacing>>)]
CallOut(c, op, pc) == [c EXCEPT !.calls = Append(@, op), !.pc = pc]

\* The handler's catch around the /change branch.
ChangeFailed(c, msg) ==
    [c EXCEPT !.pc = "done",
              !.emitted = Append(@, handleError(Caught(Error(msg))))]

\* The handler after promptForAssistant has returned `id` ("" for undefined).
AfterPrompt(c, id) ==
    IF id # ""
    THEN CallOut([c EXCEPT !.selected = id], "listAssistants", "relist")
    ELSE [Say(c, NoAssistantSelectedTryAgain) EXCEPT !.pc = "done"]

NeverChangeCommand(command) == FALSE

\* request.command === 'change'
IsChangeCommand(command) == command = "change"

CreatesSampleAlways(choice) == TRUE

\* choice === 'Yes'
CreatesSample(choice) == choice = "Yes"

\* The new state of the /change request, and of the closure's assistantId
\* once an assistant has been chosen.
Settle(c) ==
    /\ change' = c
    /\ savedAssistantId' = IF c.selected # "" THEN c.selected ELSE savedAssistantId
    /\ participant' = IF c.selected # "" /\ c.live
                      THEN [participant EXCEPT !.assistantId = c.selected]
                      ELSE participant

\* The chat request handler is invoked with the command /change.
StartChange(prompt) ==
    /\ change.pc = "idle"
    /\ change.n < MaxChanges
    /\ participant.model # ""
    /\ IF IsChangeCommand("change")
       THEN LET c == [NoChange EXCEPT !.live = TRUE, !.w = participant.wrapper,
                                      !.prompt = prompt, !.n = change.n + 1]
            IN  /\ change' = IF Dispatch(c.w) = "none"
                             THEN ChangeFailed(c, NotInitialized)
                             ELSE CallOut(c, "listAssistants", "list")
                /\ UNCHANGED ask
       ELSE /\ \E i \in Reqs :
                 /\ CanStart(i)
                 /\ ask' = [ask EXCEPT ![i] = HandleAsk("change", prompt, NoEnv)]
            /\ change' = [change EXCEPT !.n = @ + 1]
    /\ UNCHANGED <<savedAssistantId, extension, globalState, config, participant, openaiThreadMap, azureThreadMap,
                   threads, isFirstInteraction, reconfigs>>

\* promptForAssistant: wrapper.getAssistants answers.
ChangeListResp(res, assistants) ==
    /\ change.pc = "list"
    /\ LET c == [change EXCEPT !.assistants = assistants]
       IN  Settle(IF res # "ok" THEN ChangeFailed(change, TransportError(res))
                  ELSE IF Len(assistants) = 0 THEN [c EXCEPT !.pc = "offer"]
                  ELSE IF Len(assistants) = 1
                  THEN AfterPrompt(Say(c, AutomaticallySelected(assistants[1])),
                                   assistants[1].id)
                  ELSE [Say(c, PleaseSelect) EXCEPT !.pc = "pick"])
    /\ UNCHANGED <<extension, globalState, config, openaiThreadMap, azureThreadMap, threads, ask,
                   isFirstInteraction, reconfigs>>

\* promptForAssistant: the user answers the offer of a sample assistant.
OfferResp(choice) ==
    /\ change.pc = "offer"
    /\ LET c == [change EXCEPT !.choice = choice]
       IN  Settle(IF CreatesSample(choice)
                  THEN CallOut(c, "createAssistant", "create")
                  ELSE AfterPrompt(Say(c, NoAssistantsAvailable), ""))
    /\ UNCHANGED <<extension, globalState, config, openaiThreadMap, azureThreadMap, threads, ask,
                   isFirstInteraction, reconfigs>>

\* promptForAssistant: wrapper.createSampleAssistant answers; after a failure
\* the quick pick is shown with the (empty) list.
CreateSampleResp(res) ==
    /\ change.pc = "create"
    /\ Settle(IF res = "ok"
              THEN AfterPrompt(Say([change EXCEPT !.sample = SampleAssistant.id],
                                   SampleCreated),
                               SampleAssistant.id)
              ELSE [Say(change, SampleFailed) EXCEPT !.pc = "pick"])
    /\ UNCHANGED <<extension, globalState, config, openaiThreadMap, azureThreadMap, threads, ask,
                   isFirstInteraction, reconfigs>>

\* promptForAssistant: the user picks a name, or dismisses the quick pick.
PickResp(name) ==
    /\ change.pc = "pick"
    /\ name = "" \/ Includes(AssistantNames(change.assistants), name)
    /\ Settle(IF name # ""
              THEN AfterPrompt(change, FindByName(change.assistants, name))
              ELSE AfterPrompt(Say(change, NoAssistantSelectedProceed), ""))
    /\ UNCHANGED <<extension, globalState, config, openaiThreadMap, azureThreadMap, threads, ask,
                   isFirstInteraction, reconfigs>>

\* The handler's own wrapper.getAssistants answers.
RelistResp(res, assistants) ==
    /\ change.pc = "relist"
    /\ IF res # "ok"
       THEN /\ Settle(ChangeFailed(change, TransportError(res)))
            /\ UNCHANGED isFirstInteraction
       ELSE /\ Settle([Say(change, SwitchedTo(assistants, change.selected))
                          EXCEPT !.pc = "done"])
            /\ isFirstInteraction' = FALSE
    /\ UNCHANGED <<extension, globalState, config, openaiThreadMap, azureThreadMap, threads, ask,
                   reconfigs>>

\* The /change request returns.
ReturnChange ==
    /\ change.pc = "done"
    /\ change' = [NoChange EXCEPT !.n = change.n]
    /\ UNCHANGED <<savedAssistantId, extension, globalState, config, participant, openaiThreadMap, azureThreadMap,
                   threads, ask, isFirstInteraction, reconfigs>>

StepChange ==
    \/ \E res \in Results, assistants \in Listings : ChangeListResp(res, assistants)
    \/ \E choice \in {"Yes", "No", ""} : OfferResp(choice)
    \/ \E res \in Results : CreateSampleResp(res)
    \/ \E name \in {"", "Helper", "Coder"} : PickResp(name)
    \/ \E res \in Results, assistants \in Listings \cup {<<SampleAssistant>>} :
           RelistResp(res, assistants)

\* ------------------------------------------------------------- updateChatParticipant
ListedAny(assistants, assistantId) == TRUE

\* assistants.find(assistant => assistant.id === assistantId) finds one.
Listed(assistants, assistantId) ==
    \E k \in 1..Len(assistants) : assistants[k].id = assistantId

Ids(assistants) == {assistants[k].id : k \in 1..Len(assistants)}

\* updateChatParticipant up to its first await, that of createWrapper: the
\* saved assistant id is read before it.
BeginUpdate(t, phase, cfg, saved) ==
    [t EXCEPT !.pc = "wrapper", !.phase = phase, !.cfg = cfg,
              !.w = createWrapper(cfg), !.assistantId = saved,
              !.assistants = <<>>, !.listed = {}, !.choice = "", !.sample = ""]

\* What a step of updateChatParticipant comes to: it awaits again, it
\* registers a participant for `reg`, it returns without one, or it throws.
Going(t, saved) ==
    [task |-> t, reg |-> "", ended |-> FALSE, thrown |-> FALSE, saved |-> saved]
Registers(t, id, saved) ==
    [task |-> [t EXCEPT !.assistantId = id, !.registrations = @ + 1],
     reg |-> id, ended |-> TRUE, thrown |-> FALSE, saved |-> saved]
GivesUp(t, saved) ==
    [task |-> t, reg |-> "", ended |-> TRUE, thrown |-> FALSE, saved |-> saved]
Throws(t, saved) ==
    [task |-> [t EXCEPT !.failures = @ + 1],
     reg |-> "", ended |-> TRUE, thrown |-> TRUE, saved |-> saved]

\* promptForAssistant(wrapper, context) is called: wrapper.getAssistants.
PromptFrom(t, saved) ==
    IF Dispatch(t.w) = "none" THEN Throws(t, saved)
    ELSE Going([t EXCEPT !.pc = "promptList"], saved)

\* createWrapper has answered.
AfterWrapper(t, saved) ==
    IF t.assistantId # ""
    THEN IF Dispatch(t.w) = "none" THEN Throws(t, saved)
         ELSE Going([t EXCEPT !.pc = "list"], saved)
    ELSE PromptFrom(t, saved)

\* wrapper.getAssistants has answered the check of the saved assistant.
AfterList(t, saved, res, assistants) ==
    IF res # "ok" THEN Throws(t, saved)
    ELSE IF Listed(assistants, t.assistantId)
    THEN Registers([t EXCEPT !.listed = Ids(assistants)], t.assistantId, saved)
    ELSE PromptFrom([t EXCEPT !.assistantId = ""], "")

\* promptForAssistant: wrapper.getAssistants has answered.
AfterPromptList(t, saved, res, assistants) ==
    LET u == [t EXCEPT !.assistants = assistants, !.listed = Ids(assistants)]
    IN  IF res # "ok" THEN Throws(t, saved)
        ELSE IF Len(assistants) = 0 THEN Going([u EXCEPT !.pc = "offer"], saved)
        ELSE IF Len(assistants) = 1
        THEN Registers(u, assistants[1].id, assistants[1].id)
        ELSE Going([u EXCEPT !.pc = "pick"], saved)

\* promptForAssistant: the offer of the sample assistant is answered.
AfterOffer(t, saved, choice) ==
    IF CreatesSample(choice)
    THEN Going([t EXCEPT !.choice = choice, !.pc = "create"], saved)
    ELSE GivesUp([t EXCEPT !.choice = choice], saved)

\* promptForAssistant: wrapper.createSampleAssistant has answered.
AfterCreate(t, saved, res) ==
    IF res = "ok"
    THEN Registers([t EXCEPT !.sample = SampleAssistant.id],
                   SampleAssistant.id, SampleAssistant.id)
    ELSE Going([t EXCEPT !.pc = "pick"], saved)

\* promptForAssistant: the quick pick is answered.
AfterPick(t, saved, name) ==
    LET id == IF name = "" THEN "" ELSE FindByName(t.assistants, name)
    IN  IF id # "" THEN Registers(t, id, id) ELSE GivesUp(t, saved)

\* The call has returned: its locals are gone; what it listed and registered
\* is kept for the record.
Returns(t) == [t EXCEPT !.pc = "done", !.assistants = <<>>, !.choice = ""]

ActivateAborts(thrown) == IF thrown THEN "failed" ELSE "done"

\* activate after its updateChatParticipant: a failure is caught and logged.
ActivateCatches(thrown) == "done"

\* The caller of an updateChatParticipant that has ended goes on: activate
\* registers its commands and its listener; the listener after its update
\* for a changed apiProvider assigns `configuration` and updates again.
Continue(ext, e, o) ==
    IF ~o.ended THEN [ext EXCEPT !.tasks[e] = o.task]
    ELSE IF e = 0
    THEN LET activation == ActivateCatches(o.thrown)
         IN  [ext EXCEPT !.tasks[e] = Returns(o.task),
                         !.activation = activation,
                         !.commands = (activation = "done"),
                         !.listening = (activation = "done")]
    ELSE IF o.task.phase = 1
    THEN [ext EXCEPT !.configuration = o.task.cfg,
                     !.tasks[e] = BeginUpdate(o.task, 2, o.task.cfg, o.saved)]
    ELSE [ext EXCEPT !.tasks[e] = Returns(o.task)]

\* The effect of a step of updateChatParticipant; registerChatParticipant
\* creates a participant with the wrapper of this update, and no participant
\* is disposed.
Apply(e, o) ==
    /\ savedAssistantId' = o.saved
    /\ IF o.reg # ""
       THEN /\ participant' = [wrapper |-> o.task.w, model |-> "gpt-3.5-turbo",
                               assistantId |-> o.reg,
                               userId |-> registerUserId(globalState.userId)]
            /\ globalState' = [globalState EXCEPT !.userId = registerUserId(@)]
            /\ openaiThreadMap' = NoThreads
            /\ ask' = [j \in Reqs |-> [ask[j] EXCEPT !.live = FALSE]]
            /\ change' = [change EXCEPT !.live = FALSE]
       ELSE UNCHANGED <<participant, globalState, openaiThreadMap, ask, change>>
    /\ extension' = Continue(IF o.reg = "" THEN extension
                             ELSE [extension EXCEPT
                                      !.created = @ + 1,
                                      !.last = [event |-> e, listed |-> o.task.listed,
                                                sample |-> o.task.sample]],
                             e, o)
    /\ UNCHANGED <<config, azureThreadMap, threads, isFirstInteraction, reconfigs>>

\* activate is called: it reads the configuration and calls
\* updateChatParticipant.
StartActivate ==
    /\ extension.activation = "none"
    /\ config.apiKey # "" \/ config.azureOpenAIApiKey # ""
    /\ extension' = [extension EXCEPT
                         !.activation = "updating", !.configuration = config,
                         !.tasks[0] = BeginUpdate(NoTask, 2, config, savedAssistantId)]
    /\ UNCHANGED <<savedAssistantId, globalState, change, config, participant,
                   openaiThreadMap, azureThreadMap, threads, ask, isFirstInteraction,
                   reconfigs>>

\* A setting changes and the listener is called with the event.
ConfigEvent(setting, value) ==
    /\ extension.listening
    /\ extension.events < MaxEvents
    /\ value \in SettingValues[setting]
    /\ value # config[setting]
    /\ config' = [config EXCEPT ![setting] = value]
    /\ LET e == extension.events + 1
           ext == [extension EXCEPT !.events = e]
       IN  extension' =
               IF setting = "apiProvider"
                  /\ extension.configuration.apiProvider # config'.apiProvider
               THEN [ext EXCEPT !.tasks[e] =
                                    BeginUpdate(NoTask, 1, config', savedAssistantId)]
               ELSE [ext EXCEPT !.configuration = config',
                                !.tasks[e] =
                                    BeginUpdate(NoTask, 2, config', savedAssistantId)]
    /\ UNCHANGED <<savedAssistantId, globalState, change, participant,
                   openaiThreadMap, azureThreadMap, threads, ask, isFirstInteraction,
                   reconfigs>>

WrapperReady(e) ==
    /\ extension.tasks[e].pc = "wrapper"
    /\ Apply(e, AfterWrapper(extension.tasks[e], savedAssistantId))

UpdateListResp(e, res, assistants) ==
    /\ extension.tasks[e].pc = "list"
    /\ Apply(e, AfterList(extension.tasks[e], savedAssistantId, res, assistants))

PromptListResp(e, res, assistants) ==
    /\ extension.tasks[e].pc = "promptList"
    /\ Apply(e, AfterPromptList(extension.tasks[e], savedAssistantId, res, assistants))

UpdateOfferResp(e, choice) ==
    /\ extension.tasks[e].pc = "offer"
    /\ Apply(e, AfterOffer(extension.tasks[e], savedAssistantId, choice))

UpdateCreateResp(e, res) ==
    /\ extension.tasks[e].pc = "create"
    /\ Apply(e, AfterCreate(extension.tasks[e], savedAssistantId, res))

UpdatePickResp(e, name) ==
    /\ extension.tasks[e].pc = "pick"
    /\ name = "" \/ Includes(AssistantNames(extension.tasks[e].assistants), name)
    /\ Apply(e, AfterPick(extension.tasks[e], savedAssistantId, name))

StepUpdate(e) ==
    \/ WrapperReady(e)
    \/ \E res \in Results, assistants \in Listings : UpdateListResp(e, res, assistants)
    \/ \E res \in Results, assistants \in Listings : PromptListResp(e, res, assistants)
    \/ \E choice \in {"Yes", "No", ""} : UpdateOfferResp(e, choice)
    \/ \E res \in Results : UpdateCreateResp(e, res)
    \/ \E name \in {"", "Helper", "Coder"} : UpdatePickResp(e, name)

\* One exchange at a time.
Next ==
    \E i \in Reqs :
        \/ Quiet /\ Begin(i)
        \/ Step(i)
        \/ Return(i)

Spec == Init /\ [][Next]_vars

\* Exchanges overlap.
NextConc ==
    \E i \in Reqs :
        \/ NoneSettling /\ Begin(i)
        \/ NoneSettling /\ Step(i)
        \/ Return(i)

SpecConc == Init /\ [][NextConc]_vars

\* One exchange at a time, a backend that answers, and settings that change.
BeginCfg(i) ==
    \/ StartRequest(i, <<"hi">>)
    \/ \E userId \in UserIds : CallDirect(i, "asst_1", <<"hi">>, userId)

StepCfg(i) ==
    \/ RetrieveResp(i, "found")
    \/ \E res \in Results : CreateThreadResp(i, res)
    \/ AppendResp(i, "ok")
    \/ StartRunResp(i, "ok", "queued", "null")
    \/ SleepDone(i)
    \/ PollResp(i, "ok", "completed", "null")
    \/ ListResp(i, "ok", << <<TextPart(<<"Hello, ">>)>> >>)

Reconfigure ==
    \E setting \in DOMAIN SettingValues, registers \in BOOLEAN :
        \E value \in SettingValues[setting] : ConfigChange(setting, value, registers)

NextCfg ==
    \/ \E i \in Reqs :
        \/ Quiet /\ BeginCfg(i)
        \/ StepCfg(i)
        \/ Return(i)
    \/ Reconfigure

\* The cancellation token of a request is signalled (the user stops the
\* response).  The handler receives the token and never reads it; cancel
\* records how many requests the exchange had sent by then, plus one.
Cancel(i) ==
    /\ ask[i].origin = "handler"
    /\ ask[i].pc \notin {"idle", "done", "returned"}
    /\ ask[i].cancel = 0
    /\ ask' = [ask EXCEPT ![i].cancel = Len(ask[i].calls) + 1]
    /\ UNCHANGED <<savedAssistantId, extension, globalState, change, config, participant, openaiThreadMap, azureThreadMap, threads,
                   isFirstInteraction, reconfigs>>

\* One request at a time, a backend whose requests succeed, and a user who
\* may stop the response.
StepOk(i) ==
    \/ \E res \in {"found", "missing"} : RetrieveResp(i, res)
    \/ CreateThreadResp(i, "ok")
    \/ AppendResp(i, "ok")
    \/ \E r \in RunResponses : StartRunResp(i, "ok", r.status, r.lastError)
    \/ SleepDone(i)
    \/ \E r \in RunResponses : PollResp(i, "ok", r.status, r.lastError)
    \/ ListResp(i, "ok", << <<TextPart(<<"Hello, ">>)>> >>)

NextCancel ==
    \E i \in Reqs :
        \/ Quiet /\ StartRequest(i, <<"hi">>)
        \/ StepOk(i)
        \/ Cancel(i)
        \/ Return(i)

SpecCancel == Init /\ [][NextCancel]_vars

\* runs.retrieve / getRun answers, from poll MaxPolls on, with the status the
\* run already had: a run that stays queued or in progress without end.
PollStill(i) ==
    /\ ask[i].pc = "poll"
    /\ CountOp(ask[i].calls, "getRun") >= MaxPolls
    /\ ~IsTerminal(ask[i].status)
    /\ ask' = [ask EXCEPT ![i] = AfterPoll(ask[i])]
    /\ UNCHANGED <<savedAssistantId, extension, globalState, change, config, participant, openaiThreadMap, azureThreadMap, threads,
                   isFirstInteraction, reconfigs>>

\* One request at a time and a backend whose runs may never end.  A response
\* that has arrived is handled and a delay that was set elapses.
NextLive ==
    \E i \in Reqs :
        \/ Quiet /\ StartRequest(i, <<"hi">>)
        \/ StepOk(i)
        \/ PollStill(i)
        \/ Return(i)

SpecLive == Init /\ [][NextLive]_vars /\ WF_vars(NextLive)

\* No exchange is under way.
Ended == \A j \in Reqs : ask[j].pc \in {"idle", "done", "returned"}

\* Calls of Wrapper.createAndPollRun one after the other, with the backend
\* changed between them, each kept as it ended.
StepPair(i) ==
    \/ \E res \in Results : CreateThreadResp(i, res)
    \/ \E res \in Results : AppendResp(i, res)
    \/ \E res \in Results, r \in RunResponses :
           StartRunResp(i, res, r.status, r.lastError)
    \/ SleepDone(i)
    \/ \E res \in Results, r \in RunResponses :
           PollResp(i, res, r.status, r.lastError)
    \/ \E res \in Results, reply \in ReplyOptions : ListResp(i, res, reply)

NextPair ==
    \/ \E i \in Reqs :
        \/ Ended /\ CallDirect(i, "asst_1", <<"hi">>, StoredUserId)
        \/ StepPair(i)
    \/ Ended /\ \E value \in Providers : ConfigChange("apiProvider", value, TRUE)

\* Activation with an Azure key in the settings.
InitCfg == Init /\ config = Config("auto", "sk_1", "ak_1", "ep_1")

SpecCfg == InitCfg /\ [][NextCfg]_vars

SpecPair == InitCfg /\ [][NextPair]_vars

\* Questions and /change requests, one at a time.
NextChange ==
    \/ \E i \in Reqs :
           \/ Quiet /\ change.pc = "idle" /\ StartRequest(i, <<"hi">>)
           \/ StepCfg(i)
           \/ Return(i)
    \/ Quiet /\ (\E prompt \in Prompts : StartChange(prompt))
    \/ StepChange
    \/ ReturnChange

SpecChange == Init /\ [][NextChange]_vars

\* The extension is activated and gets to register its chat participant.
Activate ==
    /\ participant = NoParticipant
    /\ participant' = Register(config)
    /\ savedAssistantId' = Register(config).assistantId
    /\ globalState' = [globalState EXCEPT !.userId = registerUserId(@)]
    /\ extension' = [extension EXCEPT !.activation = "done", !.commands = TRUE,
                                      !.listening = TRUE, !.configuration = config,
                                      !.created = @ + 1,
                                      !.last.listed = {Register(config).assistantId}]
    /\ UNCHANGED <<config, openaiThreadMap, azureThreadMap, threads, ask,
                   isFirstInteraction, reconfigs, change>>

\* The extension host restarts: what lived in memory is gone, globalState and
\* workspaceState are kept, and so are the backend's threads.
Restart ==
    /\ participant # NoParticipant
    /\ participant' = NoParticipant
    /\ openaiThreadMap' = NoThreads
    /\ azureThreadMap' = NoThreads
    /\ ask' = [j \in Reqs |-> [ask[j] EXCEPT !.live = FALSE]]
    /\ change' = [NoChange EXCEPT !.n = change.n]
    /\ UNCHANGED <<savedAssistantId, config, threads, isFirstInteraction, reconfigs,
                   globalState>>
    /\ extension' = NoExtension

\* Before the first activation of a session: the store of an earlier
\* session, or none.
InitStore ==
    /\ config = Config("auto", "sk_1", "", "ep_1")
    /\ globalState \in {[userId |-> ""], [userId |-> StoredUserId]}
    /\ participant = NoParticipant
    /\ change = NoChange
    /\ savedAssistantId = ""
    /\ extension = NoExtension
    /\ openaiThreadMap = NoThreads
    /\ azureThreadMap = NoThreads
    /\ threads = <<>>
    /\ ask = [i \in Reqs |-> Idle]
    /\ isFirstInteraction = TRUE
    /\ reconfigs = 0

NextStore ==
    \/ Activate
    \/ Quiet /\ Restart
    \/ \E value \in KeyValues, registers \in BOOLEAN :
           ConfigChange("apiKey", value, registers)
    \/ \E i \in Reqs :
           \/ Quiet /\ StartRequest(i, <<"hi">>)
           \/ StepCfg(i)
           \/ Return(i)

SpecStore == InitStore /\ [][NextStore]_vars

\* Questions asked with and without an editor, one at a time.
NextCtx ==
    \E i \in Reqs :
        \/ Quiet /\ (\E env \in Envs : StartRequestIn(i, <<"hi">>, env))
        \/ StepCfg(i)
        \/ Return(i)

SpecCtx == Init /\ [][NextCtx]_vars

\* Questions that overlap, and /change requests among them.
NextFirst ==
    \/ \E i \in Reqs :
           \/ NoneSettling /\ StartRequest(i, <<"hi">>)
           \/ NoneSettling /\ StepCfg(i)
           \/ Return(i)
    \/ NoneSettling /\ StartChange(<<>>)
    \/ NoneSettling /\ StepChange
    \/ ReturnChange

SpecFirst == Init /\ [][NextFirst]_vars

\* Before activate, over the workspace of an earlier session or a new one.
InitExt ==
    /\ config = Config("auto", "sk_1", "", "ep_1")
    /\ globalState = [userId |-> StoredUserId]
    /\ participant = NoParticipant
    /\ change = NoChange
    /\ savedAssistantId \in {"", "asst_1"}
    /\ extension = NoExtension
    /\ openaiThreadMap = NoThreads
    /\ azureThreadMap = NoThreads
    /\ threads = <<>>
    /\ ask = [i \in Reqs |-> Idle]
    /\ isFirstInteraction = TRUE
    /\ reconfigs = 0

\* No updateChatParticipant is in progress.
NoUpdate == \A e \in 0..MaxEvents : extension.tasks[e].pc \in {"idle", "done"}

\* Activation and configuration changes whose updates overlap.
NextExt ==
    \/ StartActivate
    \/ \E value \in Providers : ConfigEvent("apiProvider", value)
    \/ \E value \in KeyValues : ConfigEvent("apiKey", value)
    \/ \E e \in 0..MaxEvents : StepUpdate(e)

SpecExt == InitExt /\ [][NextExt]_vars

\* Activation, one change of the API key, and /change requests, one at a time.
NextSaved ==
    \/ StartActivate
    \/ /\ change.pc = "idle"
       /\ NoUpdate
       /\ extension.events = 0
       /\ \E value \in KeyValues : ConfigEvent("apiKey", value)
    \/ \E e \in 0..MaxEvents : StepUpdate(e)
    \/ NoUpdate /\ StartChange(<<>>)
    \/ StepChange
    \/ ReturnChange

SpecSaved == InitExt /\ [][NextSaved]_vars

\* ------------------------------------------------------------- properties
\* An exchange that has gone through the backend and has its result.
Settled(a) == a.pc = "done" /\ a.failed = ""

\* The polls of an exchange that have been sent.
Polls(a) == CountOp(a.calls, "getRun")

\* C1: a run observed as queued, in_progress, in_progress, completed is
\* polled exactly three times and the exchange then returns the text of the
\* run's assistant message; in general only the last poll of an exchange
\* returns a status other than queued or in_progress, so no poll follows it.
PollsUntilTerminal ==
    \A i \in Reqs :
        LET a == ask[i]
            n == Len(a.observed)
            run == IF a.threadId = 0 THEN <<>>
                   ELSE SelectSeq(threads[a.threadId].log,
                                  LAMBDA m : BelongsTo(m, a.runId))
        IN  /\ \A k \in 2..n : IsTerminal(a.observed[k]) =>
                   k = n /\ a.pc # "poll" /\ a.failed # "poll"
            /\ n > 0 => Polls(a) = n - 1 + (IF a.pc = "poll" \/ a.failed = "poll"
                                           THEN 1 ELSE 0)
            /\ ( /\ Settled(a)
                 /\ a.observed = <<"queued", "in_progress", "in_progress", "completed">>
               ) => /\ Polls(a) = 3
                    /\ a.calls[Len(a.calls)] = "listMessages"
                    /\ (Len(run) = 1 /\ Len(run[1].content) = 1
                        /\ IsText(run[1].content[1]))
                           => a.out = Answer(run[1].content[1].value)

ThreePollsThenAnswer ==
    \E i \in Reqs :
        /\ Settled(ask[i])
        /\ ask[i].observed = <<"queued", "in_progress", "in_progress", "completed">>
        /\ Polls(ask[i]) = 3
        /\ ask[i].out = Answer(<<"Hello, ">>)

\* C2: a run that ends failed, cancelled or expired makes the exchange fail
\* with an outcome that carries the run's status and its reason, the error
\* message of the run or "Unknown reason", on the OpenAI and on the Azure path.
RunFailureCarriesStatusAndReason ==
    \A i \in Reqs :
        LET a == ask[i]
        IN  (Settled(a) /\ a.status \in FailureStatuses) =>
                /\ a.out.kind = "error"
                /\ Includes(a.out.content, a.status)
                /\ Includes(a.out.content, Reason(a.lastError))

\* C3: the answer is the concatenation, in order and without a separator, of
\* the text parts of the assistant messages of the run, on both paths.
AnswerIsPlainConcatenation ==
    \A i \in Reqs :
        LET a == ask[i]
            run == SelectSeq(threads[a.threadId].log,
                             LAMBDA m : BelongsTo(m, a.runId))
            text == Join(TextValues(Flatten([k \in 1..Len(run) |-> run[k].content])),
                         <<>>)
        IN  ( /\ Settled(a) /\ a.status = "completed"
              /\ Trim(text) # <<>> ) => a.out = Answer(text)

\* C4: a completed run without an assistant message of its own, or whose
\* assistant message has no text part, makes the exchange fail instead of
\* returning an answer.
NoTextIsMalformedResponse ==
    \A i \in Reqs :
        LET a == ask[i]
            run == SelectSeq(threads[a.threadId].log,
                             LAMBDA m : BelongsTo(m, a.runId))
            texts == TextValues(Flatten([k \in 1..Len(run) |-> run[k].content]))
        IN  (Settled(a) /\ a.status = "completed" /\ texts = <<>>)
                => a.out.kind = "error"

\* C5: a request whose prompt is empty or only whitespace is rejected with the
\* invitation to type a message and sends nothing to the backend, whatever the
\* state it arrives in, the first interaction included.
EmptyPromptMakesNoCall ==
    \A i \in Reqs :
        LET a == ask[i]
        IN  (a.origin = "handler" /\ Trim(a.question) = <<>>) =>
                /\ a.calls = <<>>
                /\ a.pc = "done"
                /\ a.out = Rejected(NonEmptyPlease)

\* C6: Wrapper.createAndPollRun called without an assistant id throws before
\* it sends anything to the backend, and no thread map changes.
RejectedBeforeAnyCall ==
    [][\A i \in Reqs :
          (ask'[i] # ask[i] /\ ask'[i].origin = "direct" /\ ask'[i].assistantId = "")
              => /\ ask'[i].pc = "done"
                 /\ ask'[i].calls = <<>>
                 /\ ask'[i].out = Error(<<"Assistant ID is required">>)
                 /\ openaiThreadMap' = openaiThreadMap
                 /\ azureThreadMap' = azureThreadMap
                 /\ threads' = threads]_vars

MissingAssistantIdRejected ==
    \E i \in Reqs :
        /\ ask[i].pc = "done"
        /\ ask[i].origin = "direct"
        /\ ask[i].assistantId = ""
        /\ ask[i].calls = <<>>
        /\ ask[i].out = Error(<<"Assistant ID is required">>)

SingleFlightPerUser ==
    \A i, j \in Reqs :
        (i # j /\ ask[i].userId = ask[j].userId /\ ask[i].path = ask[j].path)
            => ~(ask[i].created /\ ask[j].created)

\* C9: after a change of backend, also away from a backend and back to it, no
\* exchange uses a thread that was cached before the change.
ProviderSwitchDropsThreads ==
    \A i \in Reqs : "provider" \notin ask[i].stale

\* C10: after a change of the OpenAI key, the Azure key or the Azure endpoint
\* that keeps the backend, no exchange uses a thread that was cached before
\* the change.
KeyChangeDropsThreads ==
    \A i \in Reqs : ask[i].stale # {"key"}

\* C11: once cancellation is signalled between two polls of an exchange, the
\* exchange sends no further poll and ends with a cancelled outcome.
CancelStopsPolling ==
    \A i \in Reqs :
        LET a == ask[i]
        IN  (a.cancel > 1 /\ a.calls[a.cancel - 1] = "getRun") =>
                /\ \A k \in a.cancel..Len(a.calls) : a.calls[k] # "getRun"
                /\ a.pc = "done" => a.out.kind = "cancelled"

\* C12: an exchange polls for as long as the run is queued or in progress,
\* however many polls that takes: it never ends on its own while the last
\* status it has seen is queued or in progress, and once it has seen another
\* status it ends.
PollsWithoutCap ==
    /\ [](\A i \in Reqs :
            (Settled(ask[i]) /\ ask[i].observed # <<>>) =>
                IsTerminal(ask[i].observed[Len(ask[i].observed)]))
    /\ \A i \in Reqs :
            (ask[i].observed # <<>> /\ IsTerminal(ask[i].status))
                ~> (ask[i].pc \in {"done", "returned"})

StillPollingPastMaxPolls ==
    \E i \in Reqs :
        /\ ask[i].pc = "sleep"
        /\ Polls(ask[i]) = MaxPolls
        /\ Len(ask[i].observed) = MaxPolls
        /\ ~IsTerminal(ask[i].status)

\* C13: a poll is sent only while the last status seen, the one returned by
\* start-run at first, is queued or in progress; a run that start-run already
\* reports in a terminal status is never polled.
PollsOnlyWhileRunning ==
    \A i \in Reqs :
        \A p \in 1..Polls(ask[i]) : ~IsTerminal(ask[i].observed[p])

\* C14 as stated: the messages are listed only after a poll has reported the
\* run completed, at most once in an exchange, and never for a run that ended
\* failed, cancelled or expired.
ListsOnlyAfterCompletedPoll ==
    \A i \in Reqs :
        LET a == ask[i]
        IN  /\ CountOp(a.calls, "listMessages") <= 1
            /\ Includes(a.calls, "listMessages") =>
                   /\ Polls(a) >= 1
                   /\ a.observed[Len(a.observed)] = "completed"
            /\ a.status \in FailureStatuses => ~Includes(a.calls, "listMessages")

\* C14: the messages are listed only after the run has been reported
\* completed, by a poll or by start-run itself, at most once in an exchange,
\* and never for a run that ended failed, cancelled or expired.
ListsOnlyAfterCompleted ==
    \A i \in Reqs :
        LET a == ask[i]
        IN  /\ CountOp(a.calls, "listMessages") <= 1
            /\ Includes(a.calls, "listMessages") =>
                   /\ a.observed # <<>>
                   /\ a.observed[Len(a.observed)] = "completed"
                   /\ a.status = "completed"
            /\ a.status \in FailureStatuses => ~Includes(a.calls, "listMessages")

ListsWithoutPoll ==
    \E i \in Reqs :
        /\ ask[i].path = "azure"
        /\ ask[i].observed = <<"completed">>
        /\ Polls(ask[i]) = 0
        /\ ask[i].calls[Len(ask[i].calls)] = "listMessages"
        /\ Settled(ask[i])

\* C15: when the append of the user message fails the exchange ends with an
\* error, it starts no run and sends no poll and no list, and the thread of
\* the user stays in the thread map.
AppendFailureAborts ==
    \A i \in Reqs :
        LET a == ask[i]
        IN  a.failed = "append" =>
                /\ a.pc = "done"
                /\ a.out.kind = "error"
                /\ a.calls[Len(a.calls)] = "createMessage"
                /\ \A op \in {"createRun", "getRun", "listMessages"} :
                       ~Includes(a.calls, op)
                /\ a.threadId # 0
                /\ a.threadId = IF a.path = "azure" THEN azureThreadMap[a.userId]
                                ELSE openaiThreadMap[a.userId]

AppendFailedThreadKept ==
    \E i \in Reqs :
        /\ ask[i].failed = "append"
        /\ ask[i].created
        /\ ask[i].out.kind = "error"
        /\ ask[i].threadId \in {azureThreadMap[ask[i].userId],
                                openaiThreadMap[ask[i].userId]}

\* C16: an exchange sends create-thread, append, start-run and list at most
\* once each, and a request that fails, a poll included, ends the exchange
\* and is not sent again.
NoRequestIsRetried ==
    \A i \in Reqs :
        LET a == ask[i]
            sent == [createThread |-> "createThread", append |-> "createMessage",
                     startRun |-> "createRun", poll |-> "getRun",
                     list |-> "listMessages"]
        IN  /\ \A op \in {"createThread", "createMessage", "createRun",
                          "listMessages"} : CountOp(a.calls, op) <= 1
            /\ a.failed \in DOMAIN sent =>
                   /\ a.pc = "done"
                   /\ a.out.kind = "error"
                   /\ a.calls[Len(a.calls)] = sent[a.failed]
                   /\ Polls(a) = Len(a.observed) - (IF a.failed = "poll" THEN 0 ELSE 1)
                          \/ a.observed = <<>>

FailedPollEndsExchange ==
    \E i \in Reqs :
        /\ ask[i].failed = "poll"
        /\ ask[i].pc = "done"
        /\ Polls(ask[i]) = 2
        /\ ask[i].out.kind = "error"

\* C17: whatever the request and whichever backend call fails, the handler
\* returns its result after it has written at least one message.
HandlerAlwaysAnswers ==
    \A i \in Reqs :
        LET a == ask[i]
        IN  (a.origin = "handler" /\ a.pc = "done") =>
                /\ a.out.kind \in {"answer", "error", "rejected"}
                /\ a.emitted # <<>>
                /\ a.emitted[Len(a.emitted)] # <<>>

HandlerReportsFailure ==
    \E i \in Reqs :
        /\ ask[i].origin = "handler"
        /\ ask[i].pc = "done"
        /\ ask[i].failed = "list"
        /\ ~ask[i].first
        /\ Len(ask[i].emitted) = 1

\* C18: the answer of an exchange is made of the assistant messages of its own
\* run alone: it is what the extraction gives on the thread with every
\* message of another run left out, whether that run belongs to an earlier
\* exchange or to one that overlapped this one.
AnswerFromOwnRunOnly ==
    \A i \in Reqs :
        LET a == ask[i]
            listed == ListMessages(threads[a.threadId].log)
            own == SelectSeq(listed, LAMBDA m : m.role = "assistant" /\ m.run_id = a.runId)
        IN  (Settled(a) /\ a.status = "completed") =>
                a.out = IF a.path = "azure" THEN ExtractAzure(own, a.runId)
                        ELSE ExtractOpenAI(own, a.runId)

AnswerBesideOverlappingRun ==
    \E i, j \in Reqs :
        /\ i # j
        /\ Settled(ask[i]) /\ ask[i].status = "completed"
        /\ ask[i].out.kind = "answer"
        /\ j \notin ask[i].pred
        /\ ask[j].pc = "returned"
        /\ ask[j].threadId = ask[i].threadId
        /\ \E k \in 1..Len(threads[ask[i].threadId].log) :
               LET m == threads[ask[i].threadId].log[k]
               IN  /\ m.role = "assistant" /\ m.run_id = j
                   /\ TextValues(m.content) # <<>>

\* C19: when a run has written several assistant messages the answer holds
\* the text of all of them, oldest first, in whatever order the backend lists
\* them (the separator put between the texts is left aside here).
SeveralMessagesOldestFirst ==
    \A i \in Reqs :
        LET a == ask[i]
            run == SelectSeq(threads[a.threadId].log,
                             LAMBDA m : m.role = "assistant" /\ m.run_id = a.runId)
            texts == TextValues(Flatten([k \in 1..Len(run) |-> run[k].content]))
        IN  (Settled(a) /\ a.status = "completed" /\ Len(run) > 1) =>
                /\ a.out.kind = "answer"
                /\ SelectSeq(a.out.content, LAMBDA tok : tok # "\n") = Join(texts, <<>>)

\* C20: an exchange on the OpenAI path and one on the Azure path that start
\* with the same thread map and get the same responses (thread, statuses,
\* failure, messages of the run) send the same requests and end alike: with
\* the same answer, or both with a failure.
PathsAgree ==
    \A i, j \in Reqs :
        LET a == ask[i]
            b == ask[j]
            runA == SelectSeq(threads[a.threadId].log,
                              LAMBDA m : m.role = "assistant" /\ m.run_id = a.runId)
            runB == SelectSeq(threads[b.threadId].log,
                              LAMBDA m : m.role = "assistant" /\ m.run_id = b.runId)
        IN  ( /\ a.pc = "done" /\ b.pc = "done"
              /\ a.path = "openai" /\ b.path = "azure"
              /\ a.created = b.created
              /\ a.failed = b.failed
              /\ a.observed = b.observed
              /\ a.failed # "createThread" =>
                     [k \in 1..Len(runA) |-> runA[k].content]
                         = [k \in 1..Len(runB) |-> runB[k].content]
            ) => /\ a.calls = b.calls
                 /\ a.out.kind = b.out.kind
                 /\ a.out.kind = "answer" => a.out.content = b.out.content


\* C21: what the handler shows the user after a backend call has failed holds
\* no part of the backend's error text, so that exchanges which differ only in
\* that text show the same output.
ErrorTextHidden ==
    \A i \in Reqs :
        LET a == ask[i]
        IN  (a.origin = "handler" /\ a.pc = "done" /\ a.failed # "") =>
                \A res \in Results \ {"ok"} :
                    \A k \in 1..Len(TransportError(res)) :
                        ~Includes(Flatten(a.emitted), TransportError(res)[k])

\* C22: a backend failure whose message says the API key is incorrect is shown
\* to the user as the authentication error with its remediation text, and not
\* as any other message.
IncorrectKeyGetsRemediation ==
    \A i \in Reqs :
        LET a == ask[i]
        IN  (a.origin = "handler" /\ a.pc = "done" /\ a.failed # ""
                /\ Includes(a.out.content, "Incorrect API key provided")) =>
                a.emitted[Len(a.emitted)] = IncorrectApiKey \o <<newlineSpacing>>


\* C23: a request with the command "change" runs the re-selection of the
\* assistant instead of asking: whatever its prompt, it only lists assistants
\* or creates the sample, it never takes the asking path, and while it runs no
\* thread is created, no message appended and no run started.
ChangeNeverAsks ==
    /\ [](\A k \in 1..Len(change.calls) :
              change.calls[k] \in {"listAssistants", "createAssistant"})
    /\ [](\A i \in Reqs : ask[i].command # "change")
    /\ [][change' # change => (threads' = threads /\ ask' = ask)]_vars

ChangeWithPromptSwitches ==
    /\ change.pc = "done"
    /\ change.prompt = <<"hi">>
    /\ change.selected = "asst_2"
    /\ participant.assistantId = "asst_2"
    /\ threads = <<>>

\* C24: each assistant has its own thread: two questions put to different
\* assistants (before and after a /change) go to different threads, and a
\* later question to the same assistant goes to the thread of the earlier.
ThreadPerAssistant ==
    \A i, j \in Reqs :
        (ask[i].threadId # 0 /\ ask[j].threadId # 0 /\ i \in ask[j].pred) =>
            (ask[i].assistantId = ask[j].assistantId
                <=> ask[i].threadId = ask[j].threadId)

\* C30: promptForAssistant offers the sample assistant only when the backend
\* lists none, asks for its creation only after the answer "Yes", and any id
\* it returns is the id of a listed assistant or of the sample just created.
PromptReturnsListedOrSample ==
    /\ (change.pc = "offer" \/ change.choice # "") => change.assistants = <<>>
    /\ Includes(change.calls, "createAssistant") =>
            (change.assistants = <<>> /\ change.choice = "Yes")
    /\ change.sample # "" => Includes(change.calls, "createAssistant")
    /\ change.selected # "" =>
            \/ \E k \in 1..Len(change.assistants) :
                   change.assistants[k].id = change.selected
            \/ change.sample # "" /\ change.selected = change.sample

SampleCreatedAfterYes ==
    /\ change.choice = "Yes"
    /\ change.selected = SampleAssistant.id
    /\ change.pc = "done"


\* C25: the provider setting chooses the backend.  With 'auto' a registered
\* wrapper is for Azure exactly when an Azure key is configured, with 'openai'
\* or 'azure' it is for that backend whatever keys are present; and every
\* request of an exchange goes to the backend its wrapper is for.
ProviderChoosesBackend ==
    /\ [](reconfigs = 0 =>
            (participant.wrapper.isAzure <=>
                \/ config.apiProvider = "azure"
                \/ config.apiProvider = "auto" /\ config.azureOpenAIApiKey # ""))
    /\ [][participant'.wrapper # participant.wrapper =>
              (participant'.wrapper.isAzure <=>
                  \/ config'.apiProvider = "azure"
                  \/ config'.apiProvider = "auto" /\ config'.azureOpenAIApiKey # "")]_vars
    /\ [](\A i \in Reqs :
              ask[i].pc \notin {"idle", "returned"} =>
                  ask[i].via \subseteq {IF ask[i].w.isAzure THEN "azure" ELSE "openai"})

ExplicitOpenAIDespiteAzureKey ==
    /\ config.apiProvider = "openai"
    /\ config.azureOpenAIApiKey # ""
    /\ \E i \in Reqs :
           /\ ask[i].w = createWrapper(config)
           /\ ask[i].via = {"openai"}
           /\ Includes(ask[i].calls, "createRun")

\* C26: the backend of an exchange is fixed by its wrapper: all its requests
\* go to one backend, the one the wrapper was built for, and an exchange whose
\* wrapper is for Azure but lacks the key or the endpoint fails without any
\* request, to OpenAI or otherwise.
BackendFixedPerExchange ==
    \A i \in Reqs :
        LET a == ask[i]
        IN  a.pc \notin {"idle", "returned"} =>
                /\ a.via \subseteq {IF a.w.isAzure THEN "azure" ELSE "openai"}
                /\ (a.w.isAzure /\ (a.w.azureApiKey = "" \/ a.w.azureEndpoint = "")) =>
                        /\ a.calls = <<>>
                        /\ a.pc = "done"
                        /\ a.out.kind \in {"error", "rejected"}

AzureWithoutKeyFails ==
    \E i \in Reqs :
        /\ ask[i].w.isAzure
        /\ ask[i].w.azureApiKey = ""
        /\ ask[i].pc = "done"
        /\ ask[i].out.content = NotInitialized
        /\ ask[i].calls = <<>>


\* C27: the userId is generated once and persisted.  Through activations,
\* re-registrations and restarts over the same store, the participant's userId
\* is the stored one, every question carries it, all questions carry the same,
\* and the stored value is only ever written when the store holds none.
UserIdGeneratedOnce ==
    /\ [](participant # NoParticipant =>
            /\ globalState.userId # ""
            /\ participant.userId = globalState.userId)
    /\ [](\A i, j \in Reqs :
              (ask[i].pc # "idle" /\ ask[j].pc # "idle") =>
                  /\ ask[i].userId = globalState.userId
                  /\ ask[i].userId = ask[j].userId)
    /\ [][globalState'.userId # globalState.userId => globalState.userId = ""]_vars

SameUserIdAcrossRestart ==
    /\ ask[1].pc = "returned"
    /\ ~ask[1].live
    /\ ask[2].live
    /\ ask[2].userId = GeneratedUserId
    /\ ask[2].threadId # 0
    /\ reconfigs = 0


\* C28: when sendCodeContext is disabled at the time of a request, the message
\* appended for it is exactly the user's prompt, on either backend: no text of
\* the editor is part of what is sent.
NoCodeContextWhenDisabled ==
    /\ [](\A i \in Reqs :
              (ask[i].origin = "handler" /\ ~ask[i].env.sendCodeContext
                  /\ Includes(ask[i].calls, "createMessage")) =>
                  ask[i].request = ask[i].question)
    /\ [][\A i \in Reqs :
              (ask[i].pc = "append" /\ ask'[i].pc = "startRun"
                  /\ ~ask[i].env.sendCodeContext) =>
                  threads'[ask[i].threadId].log =
                      Append(threads[ask[i].threadId].log, UserMessage(ask[i].question))]_vars

PromptAloneBesideEditor ==
    \E i \in Reqs :
        LET a == ask[i]
        IN  /\ a.pc = "startRun"
            /\ a.path = "openai"
            /\ ~a.env.sendCodeContext
            /\ a.env.editor = Editor
            /\ threads[a.threadId].log[Len(threads[a.threadId].log)]
                   = UserMessage(<<"hi">>)


\* C29: two asks for the same userId that overlap in time append to and start
\* their runs on the same conversation.
ConcurrentAsksShareThread ==
    \A i, j \in Reqs :
        (/\ i # j
         /\ i \notin ask[j].pred /\ j \notin ask[i].pred
         /\ ask[i].userId = ask[j].userId
         /\ ask[i].path = ask[j].path
         /\ Includes(ask[i].calls, "createRun")
         /\ Includes(ask[j].calls, "createRun")) =>
            ask[i].threadId = ask[j].threadId


\* C31: the "Using assistant" message is emitted at most once, on the first
\* interaction, and never after a /change has switched the assistant: a request
\* emits it only while no first interaction has been completed, also when
\* requests overlap.
UsingAssistantOnce ==
    [][\A i \in Reqs :
          (/\ Includes(ask'[i].emitted, UsingAssistant \o <<newlineSpacing>>)
           /\ ~Includes(ask[i].emitted, UsingAssistant \o <<newlineSpacing>>)) =>
              isFirstInteraction]_vars


\* C32: activate completes and registers its commands and its
\* configuration-change listener also when its updateChatParticipant fails:
\* once that update has ended, however it ended, activation is done with the
\* commands registered and the listener installed.
ActivateAlwaysCompletes ==
    extension.tasks[0].pc = "done" =>
        /\ extension.activation = "done"
        /\ extension.commands
        /\ extension.listening

ActivatedAfterListingThrew ==
    /\ extension.tasks[0].pc = "done"
    /\ extension.tasks[0].failures = 1
    /\ participant = NoParticipant
    /\ extension.listening
    /\ extension.events = 1


\* C33: a chat participant is registered only with a non-empty assistant id
\* that was in the list its updateChatParticipant fetched, or that it had just
\* created; a saved id that is not listed is cleared and the user is prompted;
\* and an update in which no assistant is chosen registers nothing.
RegisteredWithListedAssistant ==
    /\ [][extension'.created > extension.created =>
              /\ participant'.assistantId # ""
              /\ \/ participant'.assistantId \in extension'.last.listed
                 \/ participant'.assistantId = extension'.last.sample]_vars
    /\ [][\A e \in 0..MaxEvents :
              (extension.tasks[e].pc = "list"
                  /\ extension'.tasks[e].pc # "list"
                  /\ extension'.tasks[e].registrations = extension.tasks[e].registrations
                  /\ extension'.tasks[e].failures = extension.tasks[e].failures) =>
                  (savedAssistantId' = "" /\ extension'.tasks[e].pc = "promptList")]_vars
    /\ [][\A e \in 0..MaxEvents :
              (extension.tasks[e].pc \in {"offer", "pick"}
                  /\ extension'.tasks[e].pc = "done"
                  /\ extension'.tasks[e].registrations = extension.tasks[e].registrations) =>
                  (participant' = participant /\ extension'.created = extension.created)]_vars

UnlistedSavedThenPicked ==
    /\ extension.tasks[0].pc = "done"
    /\ extension.tasks[0].registrations = 1
    /\ extension.tasks[0].listed = {"asst_1", "asst_2"}
    /\ participant.assistantId = "asst_2"
    /\ savedAssistantId = "asst_2"
    /\ extension.created = 1


\* C34: when a /change request has completed, the assistant id the handler
\* uses equals the persisted savedAssistantId, whether an assistant was
\* selected (both are the new id) or not (both keep their previous values).
ChangeKeepsHandlerAndSavedEqual ==
    (change.pc = "done" /\ change.live) =>
        /\ participant.assistantId = savedAssistantId
        /\ change.selected # "" => savedAssistantId = change.selected


\* C35: when promptForAssistant has listed two or more assistants, every one
\* of them can be selected: for each there is a name offered in the quick pick
\* for which promptForAssistant returns the id of that assistant.
EveryListedAssistantSelectable ==
    (change.pc = "pick" /\ Len(change.assistants) >= 2) =>
        \A k \in 1..Len(change.assistants) :
            \E n \in 1..Len(AssistantNames(change.assistants)) :
                FindByName(change.assistants, AssistantNames(change.assistants)[n])
                    = change.assistants[k].id


\* C36: at most one chat participant created by the extension is live at any
\* time: the previous one is disposed before a configuration change or a
\* command registers a new one.
AtMostOneParticipantLive ==
    extension.created <= 1

\* C37: one configuration-change event rebuilds the wrapper and registers
\* the chat participant at most once, whichever setting changed, apiProvider
\* included.
OneRegistrationPerConfigEvent ==
    \A e \in 1..MaxEvents : extension.tasks[e].registrations <= 1


\* C38: configuration changes in quick succession may interleave, but once
\* all their updates have finished, and the update of the latest change has
\* registered a participant, the participant registered last is the one of
\* the latest change, built from the latest configuration.
LastRegisteredIsLatestConfig ==
    (/\ NoUpdate
     /\ extension.events >= 1
     /\ extension.tasks[extension.events].pc = "done"
     /\ extension.tasks[extension.events].failures = 0
     /\ extension.tasks[extension.events].assistantId # "") =>
        /\ extension.last.event = extension.events
        /\ participant.wrapper = createWrapper(config)

====
